---- MODULE Spec2Model ----
(***************************************************************************)
(* A model of two parts of package ui:                                     *)
(*   - the UI dispatch bridge of uitask_unix.go (func ui, the relay        *)
(*     goroutine, the main goroutine and the GTK idle callback);           *)
(*   - the Stack layout container of stack.go.                             *)
(* The two parts share no state.  Spec / FairSpec run the bridge and keep  *)
(* the Stack fixed; the others run the Stack and keep the bridge fixed:    *)
(*   - StackSpec: SetStretchy, make, allocate and preferredSize, one call  *)
(*     at a time, on Stacks of leaf controls and Spaces;                   *)
(*   - LayoutSpec: allocate and preferredSize on Stacks that may hold a    *)
(*     Stack, with margins or padding;                                     *)
(*   - ChainSpec: allocate on longer horizontal Stacks;                    *)
(*   - RaceSpec: two goroutines in the methods of one Stack.               *)
(***************************************************************************)
EXTENDS Integers, Sequences, FiniteSets, TLC

(***************************************************************************)
(* Bounds.                                                                 *)
(***************************************************************************)
\* goroutines, other than main, that send on uitask
NCallers == 2
\* sends each of them makes, one after the other
MaxUnits == 2
\* controls a Stack is built with
MaxControls == 2
\* controls of a Stack whose neighbor links are examined
MaxChain == 3

VARIABLES
    \* ---- dispatch bridge (uitask_unix.go) ----
    uiPc,        \* position of func ui: "init", "failed", "loop", "returned"
    mainPc,      \* goroutine of line 41: "off", "running", "sending", "done"
    callerPc,    \* per caller: "ready" or "sending" (blocked in uitask <- f)
    nsub,        \* per caller: sends on uitask that have completed
    relayPc,     \* goroutine of line 29: "off", "recv", "add", "wait", "close"
    relayF,      \* the relay's loop variable f
    idleQueue,   \* idle operations handed to the event loop, not yet dispatched
    loopPc,      \* event-loop thread: "idle", "running" (in what()), "signal"
    cur,         \* the idle operation the event loop is dispatching
    quitFlag,    \* gtk_main_quit has been called
    recvd,       \* log: the units the relay received from uitask, in order
    executed,    \* log: the units that ran to completion on the event loop
    \* ---- Stack (stack.go, lines 22-29) ----
    created,     \* Stack.created
    orientation, \* Stack.orientation
    controls,    \* Stack.controls: the children, each a leaf control or a Space
    stretchy,    \* Stack.stretchy
    width,       \* Stack.width
    height,      \* Stack.height
    childMade,   \* per child: its make has returned nil at least once
    \* ---- the last call on the Stack and what it returned ----
    op,          \* "new", "SetStretchy", "make", "allocate", "preferredSize"
    arg,         \* allocate, preferredSize: the rectangle and *d as passed in
    panic,       \* SetStretchy: "none", or why it panicked
    err,         \* make: -1 for nil, else the index named in the error
    makeCalls,   \* make: the children whose make was called, in call order
    d,           \* allocate, preferredSize: *d when the call returns
    placed,      \* allocate: the rectangle passed to each child's allocate
    allocations, \* allocate: the returned list
    ret,         \* preferredSize: the returned <<width, height>>
    rerun,       \* allocate, preferredSize: "no", or, when the call before it
                 \* was the same call with equal arguments, whether it
                 \* returned the "same" or it "differs"
    \* ---- goroutines calling into one Stack (stack.go, line 23) ----
    lock,        \* Stack.lock: 0, or the thread that holds it
    threadPc,    \* per thread: "idle", or the method it is executing
    seen         \* per thread in allocate: the stretchy flags step 1 read

bridgeVars == <<uiPc, mainPc, callerPc, nsub, relayPc, relayF, idleQueue,
                loopPc, cur, quitFlag, recvd, executed>>

stackVars == <<created, orientation, controls, stretchy, width, height,
               childMade, op, arg, panic, err, makeCalls, d, placed,
               allocations, ret, rerun>>

raceVars == <<lock, threadPc, seen>>

vars == <<bridgeVars, stackVars, raceVars>>

\* the goroutines that call methods of one Stack
Threads == {1, 2}

Callers == 1 .. NCallers

\* a unit of work sent by a caller: <<caller, serial number>>
Unit(c, k) == <<c, k>>
\* the unit the main goroutine sends at line 43
gtk_main_quit == <<0, 0>>
\* the zero value of a func()
NoUnit == <<0, 1>>

Range(s) == {s[i] : i \in 1 .. Len(s)}

IsPrefix(s, t) == Len(s) <= Len(t) /\ \A i \in 1 .. Len(s) : s[i] = t[i]

(***************************************************************************)
(* func ui, lines 18-48.                                                   *)
(***************************************************************************)
BridgeInit ==
    /\ uiPc = "init"
    /\ mainPc = "off"
    /\ callerPc = [c \in Callers |-> "ready"]
    /\ nsub = [c \in Callers |-> 0]
    /\ relayPc = "off"
    /\ relayF = NoUnit
    /\ idleQueue = <<>>
    /\ loopPc = "idle"
    /\ cur = NoUnit
    /\ quitFlag = FALSE
    /\ recvd = <<>>
    /\ executed = <<>>

\* lines 21-25: gtk_init fails and ui returns the error; no goroutine starts
GtkInitFail ==
    /\ uiPc = "init"
    /\ uiPc' = "failed"
    /\ UNCHANGED <<stackVars, raceVars>>
    /\ UNCHANGED <<mainPc, callerPc, nsub, relayPc, relayF, idleQueue, loopPc,
                   cur, quitFlag, recvd, executed>>

\* lines 21-46: gtk_init succeeds, both goroutines start, ui enters gtk_main
GtkInitOk ==
    /\ uiPc = "init"
    /\ uiPc' = "loop"
    /\ relayPc' = "recv"
    /\ mainPc' = "running"
    /\ UNCHANGED <<stackVars, raceVars>>
    /\ UNCHANGED <<callerPc, nsub, relayF, idleQueue, loopPc, cur, quitFlag,
                   recvd, executed>>

\* faulty variant of MainReturn: the goroutine ends without the send of line 43
MainNoQuit ==
    /\ mainPc = "running"
    /\ mainPc' = "done"
    /\ UNCHANGED <<stackVars, raceVars>>
    /\ UNCHANGED <<uiPc, callerPc, nsub, relayPc, relayF, idleQueue, loopPc,
                   cur, quitFlag, recvd, executed>>

\* line 42 returns; the goroutine reaches the send of line 43
MainReturn ==
    /\ mainPc = "running"
    /\ mainPc' = "sending"
    /\ UNCHANGED <<stackVars, raceVars>>
    /\ UNCHANGED <<uiPc, callerPc, nsub, relayPc, relayF, idleQueue, loopPc,
                   cur, quitFlag, recvd, executed>>

\* a goroutine started by main begins  uitask <- f  and blocks in it
CallerSubmit(c) ==
    /\ mainPc # "off"
    /\ callerPc[c] = "ready"
    /\ nsub[c] < MaxUnits
    /\ callerPc' = [callerPc EXCEPT ![c] = "sending"]
    /\ UNCHANGED <<stackVars, raceVars>>
    /\ UNCHANGED <<uiPc, mainPc, nsub, relayPc, relayF, idleQueue, loopPc,
                   cur, quitFlag, recvd, executed>>

\* faulty variant of RelayRecv: the relay receives the next unit while it
\* should still be waiting at line 36
RelayRecvNoWait(c) ==
    /\ relayPc \in {"recv", "wait"}
    /\ callerPc[c] = "sending"
    /\ relayPc' = "add"
    /\ relayF' = Unit(c, nsub[c] + 1)
    /\ recvd' = Append(recvd, Unit(c, nsub[c] + 1))
    /\ callerPc' = [callerPc EXCEPT ![c] = "ready"]
    /\ nsub' = [nsub EXCEPT ![c] = @ + 1]
    /\ UNCHANGED <<stackVars, raceVars>>
    /\ UNCHANGED <<uiPc, mainPc, idleQueue, loopPc, cur, quitFlag, executed>>

\* line 30: the relay receives from the unbuffered channel; the sender c of the
\* rendezvous resumes
RelayRecv(c) ==
    /\ relayPc = "recv"
    /\ callerPc[c] = "sending"
    /\ relayPc' = "add"
    /\ relayF' = Unit(c, nsub[c] + 1)
    /\ recvd' = Append(recvd, Unit(c, nsub[c] + 1))
    /\ callerPc' = [callerPc EXCEPT ![c] = "ready"]
    /\ nsub' = [nsub EXCEPT ![c] = @ + 1]
    /\ UNCHANGED <<stackVars, raceVars>>
    /\ UNCHANGED <<uiPc, mainPc, idleQueue, loopPc, cur, quitFlag, executed>>

\* line 30 with the send of line 43 as the other side of the rendezvous
RelayRecvQuit ==
    /\ relayPc = "recv"
    /\ mainPc = "sending"
    /\ relayPc' = "add"
    /\ relayF' = gtk_main_quit
    /\ recvd' = Append(recvd, gtk_main_quit)
    /\ mainPc' = "done"
    /\ UNCHANGED <<stackVars, raceVars>>
    /\ UNCHANGED <<uiPc, callerPc, nsub, idleQueue, loopPc, cur, quitFlag,
                   executed>>

\* faulty variant of RelayAddIdle: line 36 is missing
RelayAddIdleNoWait ==
    /\ relayPc = "add"
    /\ idleQueue' = Append(idleQueue, relayF)
    /\ relayPc' = "recv"
    /\ UNCHANGED <<stackVars, raceVars>>
    /\ UNCHANGED <<uiPc, mainPc, callerPc, nsub, relayF, loopPc, cur, quitFlag,
                   recvd, executed>>

\* faulty variant of RelayAddIdle: the idle operation is registered twice
RelayAddIdleTwice ==
    /\ relayPc = "add"
    /\ idleQueue' = idleQueue \o <<relayF, relayF>>
    /\ relayPc' = "wait"
    /\ UNCHANGED <<stackVars, raceVars>>
    /\ UNCHANGED <<uiPc, mainPc, callerPc, nsub, relayF, loopPc, cur, quitFlag,
                   recvd, executed>>

\* lines 31-35: make(done), gdk_threads_add_idle(&gtkIdleOp{f, done})
RelayAddIdle ==
    /\ relayPc = "add"
    /\ idleQueue' = Append(idleQueue, relayF)
    /\ relayPc' = "wait"
    /\ UNCHANGED <<stackVars, raceVars>>
    /\ UNCHANGED <<uiPc, mainPc, callerPc, nsub, relayF, loopPc, cur, quitFlag,
                   recvd, executed>>

\* gtk_main (line 46) dispatches the oldest idle operation: our_idle_callback
\* starts and calls idleop.what
LoopDispatch ==
    /\ uiPc = "loop"
    /\ loopPc = "idle"
    /\ ~quitFlag
    /\ idleQueue # <<>>
    /\ cur' = Head(idleQueue)
    /\ idleQueue' = Tail(idleQueue)
    /\ loopPc' = "running"
    /\ UNCHANGED <<stackVars, raceVars>>
    /\ UNCHANGED <<uiPc, mainPc, callerPc, nsub, relayPc, relayF, quitFlag,
                   recvd, executed>>

\* idleop.what() returns; when it is gtk_main_quit the loop is told to stop
UnitFinish ==
    /\ loopPc = "running"
    /\ executed' = Append(executed, cur)
    /\ quitFlag' = (quitFlag \/ cur = gtk_main_quit)
    /\ loopPc' = "signal"
    /\ UNCHANGED <<stackVars, raceVars>>
    /\ UNCHANGED <<uiPc, mainPc, callerPc, nsub, relayPc, relayF, idleQueue,
                   cur, recvd>>

\* our_idle_callback's  idleop.done <- struct{}{}  meets line 36,  <-done ;
\* the callback returns FALSE, which removes the idle operation
CallbackDone ==
    /\ loopPc = "signal"
    /\ relayPc = "wait"
    /\ loopPc' = "idle"
    /\ cur' = NoUnit
    /\ relayPc' = "close"
    /\ UNCHANGED <<stackVars, raceVars>>
    /\ UNCHANGED <<uiPc, mainPc, callerPc, nsub, relayF, idleQueue, quitFlag,
                   recvd, executed>>

\* line 37: close(done), and back to line 30
RelayClose ==
    /\ relayPc = "close"
    /\ relayPc' = "recv"
    /\ UNCHANGED <<stackVars, raceVars>>
    /\ UNCHANGED <<uiPc, mainPc, callerPc, nsub, relayF, idleQueue, loopPc,
                   cur, quitFlag, recvd, executed>>

\* lines 46-47: gtk_main returns after the iteration that ran gtk_main_quit,
\* and ui returns nil
GtkMainReturn ==
    /\ uiPc = "loop"
    /\ loopPc = "idle"
    /\ quitFlag
    /\ uiPc' = "returned"
    /\ UNCHANGED <<stackVars, raceVars>>
    /\ UNCHANGED <<mainPc, callerPc, nsub, relayPc, relayF, idleQueue, loopPc,
                   cur, quitFlag, recvd, executed>>

BridgeNext ==
    \/ GtkInitFail
    \/ GtkInitOk
    \/ MainReturn
    \/ \E c \in Callers : CallerSubmit(c)
    \/ \E c \in Callers : RelayRecv(c)
    \/ RelayRecvQuit
    \/ RelayAddIdle
    \/ LoopDispatch
    \/ UnitFinish
    \/ CallbackDone
    \/ RelayClose
    \/ GtkMainReturn

(***************************************************************************)
(* Stack, stack.go.  Indices are the source's, from 0; element i of a      *)
(* slice is element i + 1 of the sequence that models it.                  *)
(***************************************************************************)
Max(a, b) == IF a > b THEN a ELSE b

\* Go's integer division truncates toward zero
GoDiv(a, b) == IF a >= 0 THEN a \div b ELSE -((-a) \div b)

\* a leaf control with its preferred size, and the Control returned by Space()
Leaf(w, h) == [kind |-> "leaf", pw |-> w, ph |-> h]
space == [kind |-> "space", pw |-> 0, ph |-> 0]

ControlKinds == {Leaf(2, 3), Leaf(5, 1), space}

\* a child that is itself a Stack with controls: its orientation, controls
\* and stretchy flags
StackControl(o, cs, str) ==
    [kind |-> "stack", pw |-> 0, ph |-> 0, o |-> o, controls |-> cs,
     stretchy |-> str]

\* the children of the Stacks whose layout is examined: the leaves, the
\* Space, and a horizontal Stack of a leaf and a stretchy leaf
NestedStack ==
    StackControl("horizontal", <<Leaf(2, 3), Leaf(5, 1)>>, <<FALSE, TRUE>>)

LayoutKinds == ControlKinds \cup {NestedStack}

\* the children of the Stacks whose neighbor links are examined
ChainKinds == {Leaf(2, 3), space, NestedStack}

\* the sizing contexts and the rectangles offered to allocate
SizeData == {[xmargin |-> 0, ymargin |-> 0, xpadding |-> 0, ypadding |-> 0],
             [xmargin |-> 1, ymargin |-> 2, xpadding |-> 2, ypadding |-> 1]}

Rects == {[x |-> 3, y |-> 1, width |-> 11, height |-> 8],
          [x |-> 0, y |-> 0, width |-> 2, height |-> 1]}

\* two more sizing contexts: margins without padding, padding without margins
LayoutData == {[xmargin |-> 1, ymargin |-> 2, xpadding |-> 0, ypadding |-> 0],
               [xmargin |-> 0, ymargin |-> 0, xpadding |-> 2, ypadding |-> 1]}

NoData == [xmargin |-> 0, ymargin |-> 0, xpadding |-> 0, ypadding |-> 0]
NoArg == [x |-> 0, y |-> 0, width |-> 0, height |-> 0, d |-> NoData]

AllocArg(r, din) ==
    [x |-> r.x, y |-> r.y, width |-> r.width, height |-> r.height, d |-> din]

\* lines 31-39: newStack
newStack(o, cs) ==
    /\ created = FALSE
    /\ orientation = o
    /\ controls = cs
    /\ stretchy = [i \in 1 .. Len(cs) |-> FALSE]
    /\ width = [i \in 1 .. Len(cs) |-> 0]
    /\ height = [i \in 1 .. Len(cs) |-> 0]

\* nothing has been called on the Stack yet
NoCall ==
    /\ childMade = [i \in 1 .. Len(controls) |-> FALSE]
    /\ op = "new"
    /\ arg = NoArg
    /\ panic = "none"
    /\ err = -1
    /\ makeCalls = <<>>
    /\ d = NoData
    /\ placed = <<>>
    /\ allocations = <<>>
    /\ ret = <<0, 0>>
    /\ rerun = "no"
    /\ lock = 0
    /\ threadPc = [t \in Threads |-> "idle"]
    /\ seen = [t \in Threads |-> <<>>]

\* line 230: the package's only Stack before main builds any
SpaceInit == newStack("horizontal", <<>>) /\ NoCall

\* lines 42-49: NewHorizontalStack, NewVerticalStack
StackInit ==
    /\ \E o \in {"horizontal", "vertical"} :
       \E n \in 0 .. MaxControls :
       \E cs \in [1 .. n -> ControlKinds] : newStack(o, cs)

----------------------------------------------------------------------------
\* lines 57-63: how SetStretchy(index) ends.  "created" and "range" are the
\* two explicit panics; "runtime" is the run-time panic of the slice
\* assignment of line 63 for an index the test of line 60 let through
SetStretchyPanicOffByOne(cr, len, index) ==
    IF cr THEN "created"
    ELSE IF index < 0 \/ index > len THEN "range"
    ELSE "none"

SetStretchyPanicAfterCreate(cr, len, index) ==
    IF index < 0 \/ index > len THEN "range"
    ELSE IF index >= len THEN "runtime"
    ELSE "none"

SetStretchyPanic(cr, len, index) ==
    IF cr THEN "created"
    ELSE IF index < 0 \/ index > len THEN "range"
    ELSE IF index >= len THEN "runtime"
    ELSE "none"

\* lines 55-63: what SetStretchy does to the Stack while it holds the lock
SetStretchyBody(index) ==
    /\ panic' = SetStretchyPanic(created, Len(stretchy), index)
    /\ stretchy' = IF panic' = "none"
                   THEN [stretchy EXCEPT ![index + 1] = TRUE]
                   ELSE stretchy
    /\ op' = "SetStretchy"
    /\ arg' = NoArg
    /\ err' = -1
    /\ makeCalls' = <<>>
    /\ d' = NoData
    /\ placed' = <<>>
    /\ allocations' = <<>>
    /\ ret' = <<0, 0>>
    /\ rerun' = "no"
    /\ UNCHANGED <<created, orientation, controls, width, height, childMade>>

\* lines 53-64, with no other goroutine in the Stack: the lock is free at
\* line 54 and free again after the deferred Unlock
SetStretchy(index) ==
    /\ lock = 0
    /\ SetStretchyBody(index)
    /\ UNCHANGED <<bridgeVars, raceVars>>

----------------------------------------------------------------------------
\* lines 70-75: the loop of make from child i on, over n children; failing is
\* the set of children whose make returns an error in this call.  The result
\* is the children called, in order, and the index of the error (-1: none)
RECURSIVE MakeLoop(_, _, _)
MakeLoopNoReturn(i, n, failing) ==
    IF i >= n THEN [calls |-> <<>>, err |-> -1]
    ELSE LET rest == MakeLoop(i + 1, n, failing)
         IN  [calls |-> <<i>> \o rest.calls,
              err |-> IF i \in failing THEN i ELSE rest.err]

MakeLoop(i, n, failing) ==
    IF i >= n THEN [calls |-> <<>>, err |-> -1]
    ELSE IF i \in failing THEN [calls |-> <<i>>, err |-> i]
    ELSE LET rest == MakeLoop(i + 1, n, failing)
         IN  [calls |-> <<i>> \o rest.calls, err |-> rest.err]

\* the children whose make can fail: a Space is a Stack without controls, and
\* its make (lines 66-78 with no controls) returns nil
CanFail == {i \in 0 .. Len(controls) - 1 : controls[i + 1].kind = "leaf"}

\* lines 69-77: what make does to the Stack while it holds the lock
makeBody(failing) ==
    LET r == MakeLoop(0, Len(controls), failing)
    IN  /\ makeCalls' = r.calls
        /\ err' = r.err
        /\ created' = IF r.err = -1 THEN TRUE ELSE created
        /\ childMade' = [i \in 1 .. Len(controls) |->
                            \/ childMade[i]
                            \/ (i - 1) \in Range(r.calls) /\ (i - 1) # r.err]
        /\ op' = "make"
        /\ arg' = NoArg
        /\ panic' = "none"
        /\ d' = NoData
        /\ placed' = <<>>
        /\ allocations' = <<>>
        /\ ret' = <<0, 0>>
        /\ rerun' = "no"
        /\ UNCHANGED <<orientation, controls, stretchy, width, height>>

\* lines 66-78, with no other goroutine in the Stack
make(failing) ==
    /\ lock = 0
    /\ makeBody(failing)
    /\ UNCHANGED <<bridgeVars, raceVars>>

----------------------------------------------------------------------------
\* A child is a leaf control, the Space, or a Stack of its own; the layout
\* of a Stack calls its children, and a child that is a Stack does the same
RECURSIVE ChildPreferredSize(_, _)
RECURSIVE ChildAllocate(_, _, _, _, _, _, _)
RECURSIVE PreferredSizeOf(_, _, _, _)
RECURSIVE AllocateOf(_, _, _, _, _, _, _)

\* lines 182-198: one round of the loop of preferredSize, for child i whose
\* preferredSize returned wh
PreferredStep(i, o, str, acc, wh) ==
    [nStretchy |-> IF str[i] THEN acc.nStretchy + 1 ELSE acc.nStretchy,
     maxswid |-> IF str[i] THEN Max(acc.maxswid, wh[1]) ELSE acc.maxswid,
     maxsht |-> IF str[i] THEN Max(acc.maxsht, wh[2]) ELSE acc.maxsht,
     width |-> IF o = "horizontal"
               THEN (IF str[i] THEN acc.width ELSE acc.width + wh[1])
               ELSE Max(acc.width, wh[1]),
     height |-> IF o = "horizontal"
                THEN Max(acc.height, wh[2])
                ELSE (IF str[i] THEN acc.height ELSE acc.height + wh[2])]

\* lines 181-199: the loop of preferredSize from child i on
RECURSIVE PreferredLoop(_, _, _, _, _, _)
PreferredLoop(i, o, cs, str, din, acc) ==
    IF i > Len(cs) THEN acc
    ELSE PreferredLoop(i + 1, o, cs, str, din,
             PreferredStep(i, o, str, acc, ChildPreferredSize(cs[i], din)))

\* lines 170-180: the locals when the loop starts
PreferredStart(o, n, din) ==
    [nStretchy |-> 0, maxswid |-> 0, maxsht |-> 0,
     width |-> IF o = "horizontal" THEN (n - 1) * din.xpadding ELSE 0,
     height |-> IF o = "horizontal" THEN 0 ELSE (n - 1) * din.ypadding]

\* lines 200-205: the result, from the locals when the loop ends
PreferredTotal(o, acc) ==
    IF o = "horizontal"
    THEN <<acc.width + acc.nStretchy * acc.maxswid, acc.height>>
    ELSE <<acc.width, acc.height + acc.nStretchy * acc.maxsht>>

\* faulty variant of PreferredSizeOf: the test of line 173 is missing
PreferredSizeOfNoEmptyTest(o, cs, str, din) ==
    PreferredTotal(o, PreferredLoop(1, o, cs, str, din,
                                    PreferredStart(o, Len(cs), din)))

\* faulty variant of PreferredSizeOf: stretchy controls are added like the
\* others, each with its own preferred extent
PreferredSizeOfSumStretchy(o, cs, str, din) ==
    IF Len(cs) = 0 THEN <<0, 0>>
    ELSE PreferredTotal(o, PreferredLoop(1, o, cs,
                                         [i \in 1 .. Len(cs) |-> FALSE], din,
                                         PreferredStart(o, Len(cs), din)))

\* lines 162-206: the <<width, height>> preferredSize returns
PreferredSizeOf(o, cs, str, din) ==
    IF Len(cs) = 0 THEN <<0, 0>>
    ELSE PreferredTotal(o, PreferredLoop(1, o, cs, str, din,
                                         PreferredStart(o, Len(cs), din)))

\* Control.preferredSize of a child: a leaf control reports its preferred
\* size; a Space is a Stack without controls (lines 173-175); a Stack is
\* lines 162-206 again
ChildPreferredSize(c, din) ==
    IF c.kind = "space" THEN <<0, 0>>
    ELSE IF c.kind = "stack"
         THEN PreferredSizeOf(c.o, c.controls, c.stretchy, din)
    ELSE <<c.pw, c.ph>>

NStretchy(str) == Cardinality({i \in DOMAIN str : str[i]})

\* faulty variant of StealMargin: lines 90-91 are missing
StealMarginNot(din) == din

\* lines 88-91: the margins are taken out of *d
StealMargin(din) == [din EXCEPT !.xmargin = 0, !.ymargin = 0]

\* faulty variant of Inset: lines 97-101 are missing
InsetNoPadding(o, n, r, din) ==
    [x |-> r.x + din.xmargin,
     y |-> r.y + din.ymargin,
     width |-> r.width - din.xmargin * 2,
     height |-> r.height - din.ymargin * 2]

\* lines 93-101: the offered rectangle r inset by the margins of din and, on
\* the primary axis, by the padding between n controls
Inset(o, n, r, din) ==
    [x |-> r.x + din.xmargin,
     y |-> r.y + din.ymargin,
     width |-> IF o = "horizontal"
               THEN r.width - din.xmargin * 2 - (n - 1) * din.xpadding
               ELSE r.width - din.xmargin * 2,
     height |-> IF o = "horizontal"
                THEN r.height - din.ymargin * 2
                ELSE r.height - din.ymargin * 2 - (n - 1) * din.ypadding]

\* faulty variant of NonStretchyLoop: lines 115 and 119 are missing
NonStretchyLoopNoSubtract(i, o, cs, str, din, rest) == rest

\* lines 106-121: what the loop from child i on leaves of rest, the primary
\* extent not taken by the controls that are not stretchy
RECURSIVE NonStretchyLoop(_, _, _, _, _, _)
NonStretchyLoop(i, o, cs, str, din, rest) ==
    IF i > Len(cs) THEN rest
    ELSE IF str[i] THEN NonStretchyLoop(i + 1, o, cs, str, din, rest)
    ELSE NonStretchyLoop(i + 1, o, cs, str, din,
             rest - ChildPreferredSize(cs[i], din)[
                        IF o = "horizontal" THEN 1 ELSE 2])

\* faulty variant of SplitStretchy: lines 123-129 are missing
SplitStretchyUndivided(rest, nStretchy) == rest

\* lines 123-129: the primary extent of each stretchy control
SplitStretchy(rest, nStretchy) ==
    IF nStretchy # 0 THEN GoDiv(rest, nStretchy) ELSE rest

\* lines 103-121, step 1: the width and height caches after the loop that
\* found the flags str, for the inset rectangle in; caches is the caches
\* before it, din is *d, as the children's preferredSize gets it
StepOne(o, cs, str, caches, in, din) ==
    [width |-> [i \in 1 .. Len(cs) |->
                   IF str[i] THEN caches.width[i]
                   ELSE IF o = "horizontal"
                        THEN ChildPreferredSize(cs[i], din)[1]
                        ELSE in.width],
     height |-> [i \in 1 .. Len(cs) |->
                   IF str[i] THEN caches.height[i]
                   ELSE IF o = "horizontal"
                        THEN in.height
                        ELSE ChildPreferredSize(cs[i], din)[2]]]

\* lines 80-121 with no other goroutine in the Stack: the caches when step 2
\* starts.  Step 1 leaves the entries of the stretchy controls as they were
\* and step 2 overwrites them before they are read, so 0 stands for them
CachesAfterStepOne(o, cs, str, r, din) ==
    StepOne(o, cs, str,
            [width |-> [i \in 1 .. Len(cs) |-> 0],
             height |-> [i \in 1 .. Len(cs) |-> 0]],
            Inset(o, Len(cs), r, din), StealMargin(din))

\* lines 130-136, step 2: the caches after the loop that found the flags
\* str; share is stretchywid of a horizontal Stack, stretchyht of a vertical
StepTwo(o, cs, str, caches, in, share) ==
    [width |-> [i \in 1 .. Len(cs) |->
                   IF str[i]
                   THEN (IF o = "horizontal" THEN share ELSE in.width)
                   ELSE caches.width[i]],
     height |-> [i \in 1 .. Len(cs) |->
                   IF str[i]
                   THEN (IF o = "horizontal" THEN in.height ELSE share)
                   ELSE caches.height[i]]]

RECURSIVE PlaceLoop(_, _, _, _, _, _, _, _, _, _)
\* faulty variant of PlaceStep: line 142 only links to a child that returned
\* allocations
PlaceStepLinkNonEmpty(i, o, cs, wid, hgt, din, x, y, current, acc, as) ==
    LET linked == IF o = "horizontal" /\ current # 0 /\ Len(as) # 0
                  THEN [acc.allocations EXCEPT ![current].neighbor = <<i - 1>>]
                  ELSE acc.allocations
        next == IF o # "horizontal" THEN current
                ELSE IF Len(as) # 0 THEN Len(linked) + 1
                ELSE 0
        acc2 == [placed |-> Append(acc.placed,
                                [x |-> x, y |-> y,
                                 width |-> wid[i], height |-> hgt[i]]),
                 allocations |-> linked \o as]
    IN  IF o = "horizontal"
        THEN PlaceLoop(i + 1, o, cs, wid, hgt, din,
                       x + wid[i] + din.xpadding, y, next, acc2)
        ELSE PlaceLoop(i + 1, o, cs, wid, hgt, din,
                       x, y + hgt[i] + din.ypadding, next, acc2)

\* faulty variant of PlaceStep: the cursor advances without the padding
PlaceStepNoPadding(i, o, cs, wid, hgt, din, x, y, current, acc, as) ==
    LET linked == IF o = "horizontal" /\ current # 0
                  THEN [acc.allocations EXCEPT ![current].neighbor = <<i - 1>>]
                  ELSE acc.allocations
        next == IF o # "horizontal" THEN current
                ELSE IF Len(as) # 0 THEN Len(linked) + 1
                ELSE 0
        acc2 == [placed |-> Append(acc.placed,
                                [x |-> x, y |-> y,
                                 width |-> wid[i], height |-> hgt[i]]),
                 allocations |-> linked \o as]
    IN  IF o = "horizontal"
        THEN PlaceLoop(i + 1, o, cs, wid, hgt, din,
                       x + wid[i], y, next, acc2)
        ELSE PlaceLoop(i + 1, o, cs, wid, hgt, din,
                       x, y + hgt[i], next, acc2)

\* lines 140-155: one round of the placement loop, for child i (from 1)
\* whose allocate returned as, and the rounds after it.  current is the
\* position in acc.allocations of the allocation  current  points to, 0 for
\* nil.  A control is named by its path: <<i>> is child i of this Stack,
\* <<i, j>> child j of that child; <<>> is nil
PlaceStep(i, o, cs, wid, hgt, din, x, y, current, acc, as) ==
    LET linked == IF o = "horizontal" /\ current # 0
                  THEN [acc.allocations EXCEPT ![current].neighbor = <<i - 1>>]
                  ELSE acc.allocations
        next == IF o # "horizontal" THEN current
                ELSE IF Len(as) # 0 THEN Len(linked) + 1
                ELSE 0
        acc2 == [placed |-> Append(acc.placed,
                                [x |-> x, y |-> y,
                                 width |-> wid[i], height |-> hgt[i]]),
                 allocations |-> linked \o as]
    IN  IF o = "horizontal"
        THEN PlaceLoop(i + 1, o, cs, wid, hgt, din,
                       x + wid[i] + din.xpadding, y, next, acc2)
        ELSE PlaceLoop(i + 1, o, cs, wid, hgt, din,
                       x, y + hgt[i] + din.ypadding, next, acc2)

\* lines 138-156: the placement loop from child i on, the cursor at (x, y).
\* The result is the rectangles passed to the children and the allocations
\* returned
PlaceLoop(i, o, cs, wid, hgt, din, x, y, current, acc) ==
    IF i > Len(cs) THEN acc
    ELSE PlaceStep(i, o, cs, wid, hgt, din, x, y, current, acc,
                   ChildAllocate(i - 1, cs[i], x, y, wid[i], hgt[i], din))

\* lines 138-158, step 3, by the caches, and what allocate leaves behind
PlaceByCaches(o, cs, caches, in, din) ==
    [d |-> din, width |-> caches.width, height |-> caches.height] @@
    PlaceLoop(1, o, cs, caches.width, caches.height, din, in.x, in.y, 0,
              [placed |-> <<>>, allocations |-> <<>>])

\* lines 80-158, for a Stack of orientation o with controls cs: *d when the
\* call returns, the caches, the rectangles passed to the children and the
\* list returned.  str1 is the flags step 1 found, from which nStretchy,
\* stretchywid and stretchyht come; str2 is the flags the loop of lines
\* 130-136 finds; caches is the caches when step 2 starts
AllocateOf(o, cs, str1, str2, caches, r, din) ==
    IF Len(cs) = 0
    THEN [d |-> din, width |-> <<>>, height |-> <<>>, placed |-> <<>>,
          allocations |-> <<>>]
    ELSE LET in == Inset(o, Len(cs), r, din)
             dz == StealMargin(din)
         IN  PlaceByCaches(o, cs,
                 StepTwo(o, cs, str2, caches, in,
                     SplitStretchy(
                         NonStretchyLoop(1, o, cs, str1, dz,
                             IF o = "horizontal" THEN in.width
                             ELSE in.height),
                         NStretchy(str1))),
                 in, dz)

\* the allocations as of a child Stack, named as the parent names them
Prefixed(i, as) ==
    [k \in 1 .. Len(as) |->
        [as[k] EXCEPT !.this = <<i>> \o @,
                      !.neighbor = IF @ = <<>> THEN <<>> ELSE <<i>> \o @]]

\* Control.allocate of child i: a leaf control returns one allocation for the
\* rectangle it is given; a Space returns none (lines 84-86); a Stack is
\* lines 80-158 again, with the same *d
ChildAllocate(i, c, x, y, w, h, din) ==
    IF c.kind = "space" THEN <<>>
    ELSE IF c.kind = "stack"
         THEN Prefixed(i,
                  AllocateOf(c.o, c.controls, c.stretchy, c.stretchy,
                      CachesAfterStepOne(c.o, c.controls, c.stretchy,
                          [x |-> x, y |-> y, width |-> w, height |-> h], din),
                      [x |-> x, y |-> y, width |-> w, height |-> h],
                      din).allocations)
    ELSE <<[this |-> <<i>>, x |-> x, y |-> y, width |-> w, height |-> h,
            neighbor |-> <<>>]>>

\* lines 80-158: what allocate(r, din) does to the Stack and to *d when out
\* is what it computes
allocateBody(out, r, din) ==
    /\ op' = "allocate"
    /\ arg' = AllocArg(r, din)
    /\ d' = out.d
    /\ placed' = out.placed
    /\ allocations' = out.allocations
    /\ IF Len(controls) = 0
       THEN UNCHANGED <<width, height>>
       ELSE width' = out.width /\ height' = out.height
    /\ panic' = "none"
    /\ err' = -1
    /\ makeCalls' = <<>>
    /\ ret' = <<0, 0>>
    /\ rerun' = IF op = "allocate" /\ arg = AllocArg(r, din)
                THEN IF allocations' = allocations /\ placed' = placed
                     THEN "same" ELSE "differs"
                ELSE "no"
    /\ UNCHANGED <<created, orientation, controls, stretchy, childMade>>

\* the list of the call before, with the list of this call after it
Appended(out) == [out EXCEPT !.allocations = allocations \o @]

\* faulty variant of allocate: the returned list is kept and appended to
allocateAppending(r, din) ==
    /\ allocateBody(
           Appended(AllocateOf(orientation, controls, stretchy, stretchy,
                        CachesAfterStepOne(orientation, controls, stretchy,
                                           r, din),
                        r, din)),
           r, din)
    /\ UNCHANGED <<bridgeVars, raceVars>>

\* lines 80-158, with no other goroutine in the Stack
allocate(r, din) ==
    /\ allocateBody(
           AllocateOf(orientation, controls, stretchy, stretchy,
               CachesAfterStepOne(orientation, controls, stretchy, r, din),
               r, din),
           r, din)
    /\ UNCHANGED <<bridgeVars, raceVars>>

----------------------------------------------------------------------------
\* lines 162-206
preferredSize(din) ==
    /\ op' = "preferredSize"
    /\ arg' = [NoArg EXCEPT !.d = din]
    /\ ret' = PreferredSizeOf(orientation, controls, stretchy, din)
    /\ d' = din
    /\ panic' = "none"
    /\ err' = -1
    /\ makeCalls' = <<>>
    /\ placed' = <<>>
    /\ allocations' = <<>>
    /\ rerun' = IF op = "preferredSize" /\ arg = [NoArg EXCEPT !.d = din]
                THEN IF ret' = ret THEN "same" ELSE "differs"
                ELSE "no"
    /\ UNCHANGED <<created, orientation, controls, stretchy, width, height,
                   childMade>>
    /\ UNCHANGED <<bridgeVars, raceVars>>

----------------------------------------------------------------------------
\* the indices SetStretchy is called with
Indices == -1 .. (MaxControls + 1)

StackNext ==
    \/ \E index \in Indices : SetStretchy(index)
    \/ \E failing \in SUBSET CanFail : make(failing)
    \/ \E r \in Rects : \E din \in SizeData : allocate(r, din)
    \/ \E din \in SizeData : preferredSize(din)

\* the Stack alone; the bridge has not been started
StackOnlyInit == BridgeInit /\ StackInit /\ NoCall

StackSpec == StackOnlyInit /\ [][StackNext]_vars

\* lines 42-49 and 53-64: a Stack as NewHorizontalStack or NewVerticalStack
\* returns it, after any SetStretchy calls that did not panic
LayoutInit ==
    /\ BridgeInit
    /\ \E o \in {"horizontal", "vertical"} :
       \E n \in 0 .. MaxControls :
       \E cs \in [1 .. n -> LayoutKinds] :
       \E str \in [1 .. n -> BOOLEAN] :
          /\ created = FALSE
          /\ orientation = o
          /\ controls = cs
          /\ stretchy = str
          /\ width = [i \in 1 .. n |-> 0]
          /\ height = [i \in 1 .. n |-> 0]
    /\ NoCall

\* the rectangle at the origin with the size the last preferredSize returned
PreferredRect == [x |-> 0, y |-> 0, width |-> ret[1], height |-> ret[2]]

\* the layout calls the parent window makes on a Stack: preferredSize and
\* allocate, in any order, with any context
LayoutNext ==
    \/ \E r \in Rects : \E din \in LayoutData : allocate(r, din)
    \/ \E din \in LayoutData : allocate(PreferredRect, din)
    \/ \E din \in LayoutData : preferredSize(din)

LayoutSpec == LayoutInit /\ [][LayoutNext]_vars

\* lines 42-49: a new Stack of up to MaxChain controls
ChainInit ==
    /\ BridgeInit
    /\ \E o \in {"horizontal", "vertical"} :
       \E n \in 0 .. MaxChain :
       \E cs \in [1 .. n -> ChainKinds] : newStack(o, cs)
    /\ NoCall

ChainNext == \E r \in Rects : \E din \in SizeData : allocate(r, din)

ChainSpec == ChainInit /\ [][ChainNext]_vars

(***************************************************************************)
(* Two goroutines in one Stack.  SetStretchy and make hold Stack.lock from *)
(* their first line to their return; allocate and preferredSize take no    *)
(* lock.  allocate reads Stack.stretchy twice, in step 1 (line 107) and in *)
(* step 2 (line 131), and writes the caches in both.                       *)
(***************************************************************************)
RaceRect == [x |-> 3, y |-> 1, width |-> 11, height |-> 8]
RaceData == [xmargin |-> 1, ymargin |-> 2, xpadding |-> 2, ypadding |-> 1]

Goto(t, where) == threadPc' = [threadPc EXCEPT ![t] = where]

\* line 54 (and line 55, which defers the Unlock)
LockSetStretchy(t) ==
    /\ threadPc[t] = "idle"
    /\ lock = 0
    /\ lock' = t
    /\ Goto(t, "SetStretchy")
    /\ UNCHANGED <<seen, stackVars, bridgeVars>>

\* lines 56-64: the body, then the deferred Unlock, also when it panics
ReturnSetStretchy(t, index) ==
    /\ threadPc[t] = "SetStretchy"
    /\ SetStretchyBody(index)
    /\ lock' = 0
    /\ Goto(t, "idle")
    /\ UNCHANGED <<seen, bridgeVars>>

\* line 67 (and line 68)
LockMake(t) ==
    /\ threadPc[t] = "idle"
    /\ lock = 0
    /\ lock' = t
    /\ Goto(t, "make")
    /\ UNCHANGED <<seen, stackVars, bridgeVars>>

\* lines 69-78
ReturnMake(t, failing) ==
    /\ threadPc[t] = "make"
    /\ makeBody(failing)
    /\ lock' = 0
    /\ Goto(t, "idle")
    /\ UNCHANGED <<seen, bridgeVars>>

\* lines 80-121, no lock taken: step 1 reads the stretchy flags and writes
\* the caches of the controls it finds not stretchy
BeginAllocate(t) ==
    /\ threadPc[t] = "idle"
    /\ Len(controls) # 0
    /\ LET one == StepOne(orientation, controls, stretchy,
                          [width |-> width, height |-> height],
                          Inset(orientation, Len(controls), RaceRect,
                                RaceData),
                          StealMargin(RaceData))
       IN  /\ width' = one.width
           /\ height' = one.height
    /\ seen' = [seen EXCEPT ![t] = stretchy]
    /\ Goto(t, "allocate")
    /\ UNCHANGED <<created, orientation, controls, stretchy, childMade, op,
                   arg, panic, err, makeCalls, d, placed, allocations, ret,
                   rerun, lock, bridgeVars>>

\* lines 123-158: step 2 divides what step 1 counted, reads the flags again
\* and writes the caches of the controls it now finds stretchy; step 3 places
\* the controls by the caches
EndAllocate(t) ==
    /\ threadPc[t] = "allocate"
    /\ allocateBody(
           AllocateOf(orientation, controls, seen[t], stretchy,
                      [width |-> width, height |-> height], RaceRect,
                      RaceData),
           RaceRect, RaceData)
    /\ Goto(t, "idle")
    /\ UNCHANGED <<lock, seen, bridgeVars>>

\* lines 162-180, no lock taken
EnterPreferredSize(t) ==
    /\ threadPc[t] = "idle"
    /\ Goto(t, "preferredSize")
    /\ UNCHANGED <<lock, seen, stackVars, bridgeVars>>

\* lines 181-206: the loop reads the stretchy flags
ReturnPreferredSize(t) ==
    /\ threadPc[t] = "preferredSize"
    /\ ret' = PreferredSizeOf(orientation, controls, stretchy, RaceData)
    /\ op' = "preferredSize"
    /\ arg' = [NoArg EXCEPT !.d = RaceData]
    /\ d' = RaceData
    /\ panic' = "none"
    /\ err' = -1
    /\ makeCalls' = <<>>
    /\ placed' = <<>>
    /\ allocations' = <<>>
    /\ rerun' = "no"
    /\ Goto(t, "idle")
    /\ UNCHANGED <<created, orientation, controls, stretchy, width, height,
                   childMade, lock, seen, bridgeVars>>

\* lines 42-49: a new horizontal Stack of two leaves, no goroutine in it
RaceInit ==
    /\ BridgeInit
    /\ newStack("horizontal", <<Leaf(2, 3), Leaf(5, 1)>>)
    /\ NoCall

RaceNext ==
    \E t \in Threads :
        \/ LockSetStretchy(t)
        \/ \E index \in 0 .. 2 : ReturnSetStretchy(t, index)
        \/ LockMake(t)
        \/ \E failing \in SUBSET CanFail : ReturnMake(t, failing)
        \/ BeginAllocate(t)
        \/ EndAllocate(t)
        \/ EnterPreferredSize(t)
        \/ ReturnPreferredSize(t)

RaceSpec == RaceInit /\ [][RaceNext]_vars

\* the bridge alone; the only Stack is the package's space
Init == BridgeInit /\ SpaceInit

Spec == Init /\ [][BridgeNext]_vars

\* The Go scheduler runs every runnable goroutine and the GTK main loop
\* dispatches every pending idle operation; a blocked channel operation
\* completes once its other side is there and stays.  main and the callers
\* are application code: nothing makes them return or send.
FairSpec ==
    /\ Spec
    /\ WF_vars(GtkInitFail \/ GtkInitOk)
    /\ WF_vars(\E c \in Callers : RelayRecv(c))
    /\ WF_vars(RelayRecvQuit)
    /\ WF_vars(RelayAddIdle)
    /\ WF_vars(LoopDispatch)
    /\ WF_vars(UnitFinish)
    /\ WF_vars(CallbackDone)
    /\ WF_vars(RelayClose)
    /\ WF_vars(GtkMainReturn)

(***************************************************************************)
(* Properties of the dispatch bridge.                                      *)
(***************************************************************************)
Pending(u) == u \in Range(idleQueue) \/ (loopPc = "running" /\ cur = u)

Done(u) == u \in Range(executed)

\* u was received by the relay, and gtk_main_quit was not received before it
ReceivedBeforeQuit(u) ==
    \E i \in 1 .. Len(recvd) :
        /\ recvd[i] = u
        /\ \A j \in 1 .. (i - 1) : recvd[j] # gtk_main_quit

C2OneInFlight ==
    /\ Len(idleQueue) + (IF loopPc = "idle" THEN 0 ELSE 1) <= 1
    /\ relayPc \in {"recv", "add"} => idleQueue = <<>> /\ loopPc = "idle"

\* a second sender is waiting in its send while a unit is running
C2Witness ==
    /\ loopPc = "running"
    /\ \E c \in Callers : callerPc[c] = "sending"
    /\ mainPc = "sending"

\* C3: the units run in the order the relay received them, each once: the
\* log of executed units is a prefix of the log of received units, and two
\* units of one caller run in the order they were sent.
C3ExecutionOrder ==
    /\ IsPrefix(executed, recvd)
    /\ \A i \in 1 .. Len(executed) : \A j \in 1 .. (i - 1) :
           executed[i][1] = executed[j][1] => executed[j][2] < executed[i][2]

\* both units of a caller have run, a unit of another caller between them
C3Witness ==
    /\ Len(executed) >= 3
    /\ executed[1][1] = executed[3][1]
    /\ executed[1][1] # executed[2][1]
    /\ executed[2] # gtk_main_quit

C5QuitEventuallyRuns ==
    (mainPc \in {"sending", "done"}) ~> (uiPc = "returned" /\ Done(gtk_main_quit))

\* ui has returned after units of callers and then gtk_main_quit were executed
C5Witness ==
    /\ uiPc = "returned"
    /\ mainPc = "done"
    /\ Len(executed) >= 2
    /\ executed[Len(executed)] = gtk_main_quit

\* C6: gtk_main_quit is the final unit: after the relay has received it and
\* handed it to the event loop, the relay receives nothing more, so no unit
\* follows it in the log of received units.
C6QuitIsFinal ==
    \A i \in 1 .. Len(recvd) : recvd[i] = gtk_main_quit => i = Len(recvd)

(***************************************************************************)
(* Properties of the Stack.                                                *)
(***************************************************************************)
Min(S) == CHOOSE m \in S : \A k \in S : m <= k

Abs(a) == IF a < 0 THEN -a ELSE a

\* the extent of child i (from 1) along the Stack's primary axis
PreferredPrimary(i) ==
    IF orientation = "horizontal"
    THEN ChildPreferredSize(controls[i], arg.d)[1]
    ELSE ChildPreferredSize(controls[i], arg.d)[2]

PlacedPrimary(i) ==
    IF orientation = "horizontal" THEN placed[i].width ELSE placed[i].height

RECURSIVE SumPreferredPrimary(_)
SumPreferredPrimary(S) ==
    IF S = {} THEN 0
    ELSE LET i == CHOOSE k \in S : TRUE
         IN  PreferredPrimary(i) + SumPreferredPrimary(S \ {i})

\* what the last allocate was offered along the primary axis, less the two
\* margins, the padding gaps and the preferred extents of the controls that
\* are not stretchy
Leftover ==
    LET hor == orientation = "horizontal"
        offered == IF hor THEN arg.width ELSE arg.height
        margin == IF hor THEN arg.d.xmargin ELSE arg.d.ymargin
        padding == IF hor THEN arg.d.xpadding ELSE arg.d.ypadding
    IN  offered - 2 * margin - (Len(controls) - 1) * padding
          - SumPreferredPrimary({i \in DOMAIN stretchy : ~stretchy[i]})

\* C7: SetStretchy(index) panics for every index outside [0, len(controls)),
\* index = len(controls) and the negative indices included, and such a call
\* leaves stretchy as it was.
C7SetStretchyOutOfRange ==
    [][\A index \in Indices :
          (SetStretchy(index) /\ (index < 0 \/ index >= Len(controls)))
              => (panic' # "none" /\ stretchy' = stretchy)]_vars

\* SetStretchy(len(controls)) has panicked on a Stack with a stretchy control
C7Witness ==
    /\ op = "SetStretchy"
    /\ panic = "runtime"
    /\ ~created
    /\ \E i \in DOMAIN stretchy : stretchy[i]

\* C8: created starts false, turns true only in a make that returns nil, and
\* never turns false again; once it is true every SetStretchy panics, whatever
\* its index, and stretchy no longer changes.
C8CreatedLatch ==
    /\ ~created
    /\ [][/\ created => (created' /\ stretchy' = stretchy)
          /\ (~created /\ created') => (op' = "make" /\ err' = -1)
          /\ \A index \in Indices :
                (SetStretchy(index) /\ created) => panic' # "none"]_vars

\* after make succeeded, SetStretchy panicked on a Stack that still has a
\* control that is not stretchy
C8Witness ==
    /\ created
    /\ op = "SetStretchy"
    /\ panic = "created"
    /\ \E i \in DOMAIN stretchy : ~stretchy[i]
    /\ \E i \in DOMAIN stretchy : stretchy[i]

\* C9: make calls the children's make in index order up to and including the
\* first child that fails, returns an error naming that child, leaves the
\* children made so far made and created as it was (false, on a Stack no
\* make has succeeded on); when no child fails it calls them all, returns nil
\* and sets created.
C9MakeStopsAtFirstFailure ==
    [][\A failing \in SUBSET CanFail :
          make(failing) =>
             LET n == Len(controls)
                 first == IF failing = {} THEN n ELSE Min(failing)
                 last == IF failing = {} THEN n - 1 ELSE first
             IN  /\ makeCalls' = [k \in 1 .. (last + 1) |-> k - 1]
                 /\ childMade' = [i \in 1 .. n |-> childMade[i] \/ i - 1 < first]
                 /\ failing # {} => (err' = first /\ created' = created)
                 /\ failing = {} => (err' = -1 /\ created')]_vars

\* make failed at child 0 of two: child 1 was not called, child 0 is still
\* made from an earlier make that failed at child 1, and created is false
C9Witness ==
    /\ op = "make"
    /\ Len(controls) = 2
    /\ err = 0
    /\ makeCalls = <<0>>
    /\ childMade = <<TRUE, FALSE>>
    /\ ~created

\* C10: after allocate every stretchy control has been given the same
\* primary extent, and that extent times the number of stretchy controls
\* differs from the leftover primary space by no more than that number (the
\* extent is within 1 of the exact quotient).
C10StretchyEqualShare ==
    (op = "allocate" /\ Len(controls) > 0 /\ NStretchy(stretchy) > 0) =>
        \A i \in DOMAIN stretchy : \A j \in DOMAIN stretchy :
            (stretchy[i] /\ stretchy[j]) =>
                /\ PlacedPrimary(i) = PlacedPrimary(j)
                /\ Abs(NStretchy(stretchy) * PlacedPrimary(i) - Leftover)
                       <= NStretchy(stretchy)

\* two stretchy controls have shared a leftover of 11 that 2 does not divide
C10Witness ==
    /\ op = "allocate"
    /\ NStretchy(stretchy) = 2
    /\ Leftover = 11
    /\ PlacedPrimary(1) = 5
    /\ PlacedPrimary(2) = 5

(***************************************************************************)
(* Properties of the layout: allocate and preferredSize.                   *)
(***************************************************************************)
\* the extent of child i (from 1) across the Stack's primary axis
PreferredCross(i) ==
    IF orientation = "horizontal"
    THEN ChildPreferredSize(controls[i], arg.d)[2]
    ELSE ChildPreferredSize(controls[i], arg.d)[1]

MaxOf(S) == CHOOSE m \in S : \A k \in S : m >= k

Stretchy == {i \in DOMAIN stretchy : stretchy[i]}
NonStretchy == {i \in DOMAIN stretchy : ~stretchy[i]}

\* the last call was allocate on a horizontal Stack of two controls, one of
\* them stretchy, with no padding
TwoControlsOneStretchy ==
    /\ op = "allocate"
    /\ orientation = "horizontal"
    /\ Len(controls) = 2
    /\ Cardinality(Stretchy) = 1
    /\ arg.d.xpadding = 0

\* C11 as stated: the stretchy control of such a Stack gets the offered
\* width less the preferred width of the other control.
C11StretchyGetsRest ==
    TwoControlsOneStretchy =>
        \A i \in Stretchy : \A j \in NonStretchy :
            width[i] = arg.width - PreferredPrimary(j)

\* C11, amended: the stretchy control of such a Stack gets the offered width
\* less the margin on both sides and less the preferred width of the other
\* control, whatever its own preferred width is.
C11StretchyGetsInsetRest ==
    TwoControlsOneStretchy =>
        \A i \in Stretchy : \A j \in NonStretchy :
            /\ width[i] = arg.width - 2 * arg.d.xmargin - PreferredPrimary(j)
            /\ placed[i].width = width[i]

\* a stretchy leaf that prefers 5 has been given 11 - 2 * 1 - 2 = 7
C11Witness ==
    /\ TwoControlsOneStretchy
    /\ arg.width = 11
    /\ arg.d.xmargin = 1
    /\ \E i \in Stretchy : \E j \in NonStretchy :
          /\ PreferredPrimary(i) = 5
          /\ PreferredPrimary(j) = 2
          /\ width[i] = 7

\* C12: preferredSize of a Stack with controls returns, along the primary
\* axis, the padding between the controls plus the preferred extents of the
\* controls that are not stretchy plus, for each stretchy control, the
\* largest preferred extent of a stretchy control; across it, the largest
\* preferred extent of any control.  The margins are not in it.
C12PreferredSizeFormula ==
    (op = "preferredSize" /\ Len(controls) >= 1) =>
        LET hor == orientation = "horizontal"
            padding == IF hor THEN arg.d.xpadding ELSE arg.d.ypadding
            largest == IF Stretchy = {} THEN 0
                       ELSE MaxOf({PreferredPrimary(i) : i \in Stretchy})
            primary == (Len(controls) - 1) * padding
                         + SumPreferredPrimary(NonStretchy)
                         + Cardinality(Stretchy) * largest
            cross == MaxOf({PreferredCross(i) : i \in DOMAIN controls})
        IN  ret = IF hor THEN <<primary, cross>> ELSE <<cross, primary>>

\* two stretchy controls that prefer different extents, with padding
C12Witness ==
    /\ op = "preferredSize"
    /\ Len(controls) = 2
    /\ Cardinality(Stretchy) = 2
    /\ PreferredPrimary(1) # PreferredPrimary(2)
    /\ PreferredCross(1) # PreferredCross(2)
    /\ arg.d.xpadding = 2
    /\ arg.d.ypadding = 1

\* C13: allocate on a Stack with controls takes the margins of the context
\* off the offered rectangle once and leaves the context with both margins 0
\* and its padding as it was; the children get that context, so a child that
\* is a Stack lays its own children out edge to edge in the rectangle it was
\* given: the first at its origin, each as large across as the rectangle.
C13MarginsInsetOnce ==
    (op = "allocate" /\ Len(controls) >= 1) =>
        /\ d = [arg.d EXCEPT !.xmargin = 0, !.ymargin = 0]
        /\ placed[1].x = arg.x + arg.d.xmargin
        /\ placed[1].y = arg.y + arg.d.ymargin
        /\ \A k \in DOMAIN allocations :
              LET a == allocations[k]
                  p == placed[a.this[1] + 1]
                  c == controls[a.this[1] + 1]
              IN  Len(a.this) = 2 =>
                     IF c.o = "horizontal"
                     THEN /\ a.y = p.y
                          /\ a.height = p.height
                          /\ a.this[2] = 0 => a.x = p.x
                     ELSE /\ a.x = p.x
                          /\ a.width = p.width
                          /\ a.this[2] = 0 => a.y = p.y

\* a Stack nested as the second child has been laid out by an allocate whose
\* context came with margins
C13Witness ==
    /\ op = "allocate"
    /\ Len(controls) = 2
    /\ controls[2].kind = "stack"
    /\ arg.d.xmargin = 1
    /\ arg.d.ymargin = 2
    /\ d.xmargin = 0
    /\ d.ymargin = 0
    /\ \E k \in DOMAIN allocations :
          /\ allocations[k].this = <<1, 0>>
          /\ allocations[k].x = placed[2].x
          /\ allocations[k].y = arg.y + 2

\* C14: on a Stack without controls preferredSize returns (0, 0) and allocate
\* returns an empty list, whatever the rectangle and the context; neither
\* calls a child nor changes the Stack or the context.
C14EmptyStackNoOp ==
    [][Len(controls) = 0 =>
          /\ op' = "preferredSize" => ret' = <<0, 0>>
          /\ op' = "allocate" => allocations' = <<>> /\ placed' = <<>>
          /\ op' \in {"preferredSize", "allocate"} =>
                /\ d' = arg'.d
                /\ UNCHANGED <<created, orientation, controls, stretchy,
                               width, height, childMade>>]_vars

\* allocate on a Stack without controls has left a context with margins alone
C14Witness ==
    /\ Len(controls) = 0
    /\ op = "allocate"
    /\ arg.width = 11
    /\ arg.d.xmargin = 1
    /\ d = arg.d
    /\ allocations = <<>>

PlacedOrigin(i) ==
    IF orientation = "horizontal" THEN placed[i].x ELSE placed[i].y

PlacedCross(i) ==
    IF orientation = "horizontal" THEN placed[i].height ELSE placed[i].width

PlacedCrossOrigin(i) ==
    IF orientation = "horizontal" THEN placed[i].y ELSE placed[i].x

RECURSIVE SumPlacedPrimary(_)
SumPlacedPrimary(S) ==
    IF S = {} THEN 0
    ELSE LET i == CHOOSE k \in S : TRUE
         IN  PlacedPrimary(i) + SumPlacedPrimary(S \ {i})

\* what the last allocate was offered, and the context it was given, along
\* the primary axis and across it
Offered ==
    LET hor == orientation = "horizontal"
    IN  [origin |-> IF hor THEN arg.x ELSE arg.y,
         extent |-> IF hor THEN arg.width ELSE arg.height,
         margin |-> IF hor THEN arg.d.xmargin ELSE arg.d.ymargin,
         padding |-> IF hor THEN arg.d.xpadding ELSE arg.d.ypadding,
         crossOrigin |-> IF hor THEN arg.y ELSE arg.x,
         crossExtent |-> IF hor THEN arg.height ELSE arg.width,
         crossMargin |-> IF hor THEN arg.d.ymargin ELSE arg.d.xmargin]

\* C17: allocate passes a rectangle to each child in index order; the
\* rectangle of child i spans the whole inset rectangle across the primary
\* axis and starts, along it, at the inset origin plus the extents of the
\* children before it and one padding each; without stretchy controls,
\* margins and padding the origins are the prefix sums of the preferred
\* extents and each child gets its preferred extent.
C17PlacementOrigins ==
    (op = "allocate" /\ Len(controls) >= 1) =>
        /\ Len(placed) = Len(controls)
        /\ \A k \in DOMAIN allocations : \A l \in DOMAIN allocations :
              k < l => allocations[k].this[1] <= allocations[l].this[1]
        /\ \A i \in DOMAIN controls :
              /\ PlacedCross(i) = Offered.crossExtent - 2 * Offered.crossMargin
              /\ PlacedCrossOrigin(i) = Offered.crossOrigin + Offered.crossMargin
              /\ PlacedOrigin(i) =
                     Offered.origin + Offered.margin
                       + SumPlacedPrimary(1 .. (i - 1))
                       + (i - 1) * Offered.padding
              /\ (Stretchy = {} /\ arg.d = NoData) =>
                     /\ PlacedOrigin(i) =
                            Offered.origin + SumPreferredPrimary(1 .. (i - 1))
                     /\ PlacedPrimary(i) = PreferredPrimary(i)

\* the second of two leaves follows the first and a padding of 2, in a
\* rectangle inset by the margins
C17Witness ==
    /\ op = "allocate"
    /\ orientation = "horizontal"
    /\ Len(controls) = 2
    /\ Stretchy = {}
    /\ arg.d.xpadding = 2
    /\ arg.d.xmargin = 1
    /\ placed[1].x = arg.x + 1
    /\ placed[1].width = 5
    /\ placed[2].x = arg.x + 1 + 5 + 2
    /\ placed[2].height = arg.height - 4

\* where the inset rectangle ends along the primary axis
InsetEnd == Offered.origin + Offered.extent - Offered.margin

\* C19: when the offered primary extent covers the margins, the padding and
\* the preferred extents of the controls that are not stretchy, allocate
\* gives every child a primary extent that is not negative, the rectangles
\* follow each other in index order without overlap, none ends after the
\* inset rectangle does, and with stretchy controls the space left after the
\* last child is less than their number.
C19RectanglesWithinBounds ==
    (op = "allocate" /\ Len(controls) >= 1 /\ Leftover >= 0) =>
        /\ \A i \in DOMAIN controls :
              /\ PlacedPrimary(i) >= 0
              /\ PlacedOrigin(i) >= Offered.origin + Offered.margin
              /\ PlacedOrigin(i) + PlacedPrimary(i) <= InsetEnd
              /\ \A j \in DOMAIN controls :
                    i < j => PlacedOrigin(i) + PlacedPrimary(i) <= PlacedOrigin(j)
        /\ Stretchy # {} =>
              LET last == Len(controls)
                  trailing == InsetEnd - (PlacedOrigin(last) + PlacedPrimary(last))
              IN  trailing >= 0 /\ trailing < Cardinality(Stretchy)

\* two stretchy controls have shared 11 - 2 * 1 - 2 = 7: 3 each, and 1 is
\* left after the second
C19Witness ==
    /\ op = "allocate"
    /\ orientation = "horizontal"
    /\ Cardinality(Stretchy) = 2
    /\ Leftover = 7
    /\ arg.d.xpadding = 2
    /\ placed[1].width = 3
    /\ placed[2].x + placed[2].width = InsetEnd - 1

\* the last allocate was offered, with a context without margins, the size
\* preferredSize returns for that context
OfferedPreferredSize ==
    /\ op = "allocate"
    /\ Len(controls) >= 1
    /\ arg.d.xmargin = 0
    /\ arg.d.ymargin = 0
    /\ <<arg.width, arg.height>> =
           PreferredSizeOf(orientation, controls, stretchy, arg.d)

\* C20: offered the size its preferredSize returns, with no margins, allocate
\* gives every control that is not stretchy its preferred primary extent and
\* every stretchy control the largest preferred primary extent of a stretchy
\* control, which is at least its own; the children and the padding between
\* them fill the offered primary extent.
C20PreferredSizeFits ==
    OfferedPreferredSize =>
        /\ \A i \in NonStretchy : PlacedPrimary(i) = PreferredPrimary(i)
        /\ \A i \in Stretchy :
              /\ PlacedPrimary(i) = MaxOf({PreferredPrimary(j) : j \in Stretchy})
              /\ PlacedPrimary(i) >= PreferredPrimary(i)
        /\ SumPlacedPrimary(DOMAIN controls)
             + (Len(controls) - 1) * Offered.padding = Offered.extent

\* two stretchy controls that prefer 2 and 5 have been given 5 each, 2 apart,
\* by an allocate that followed preferredSize
C20Witness ==
    /\ OfferedPreferredSize
    /\ arg.x = 0
    /\ arg.y = 0
    /\ orientation = "horizontal"
    /\ Cardinality(Stretchy) = 2
    /\ PreferredPrimary(1) = 2
    /\ PreferredPrimary(2) = 5
    /\ arg.d.xpadding = 2
    /\ arg.width = 12
    /\ placed[1].width = 5
    /\ placed[2].width = 5

\* the allocations that came from child i (from 1), by position in the list
\* allocate returned, and the first of them
ChildAllocations(i) ==
    {k \in DOMAIN allocations : allocations[k].this[1] = i - 1}

NonEmptyChild(i) == ChildAllocations(i) # {}

FirstAllocation(i) == allocations[Min(ChildAllocations(i))]

\* a neighbor that names a child of this Stack; a Stack sets no other
SetHere(a) == Len(a.neighbor) = 1

\* C18 as stated: in a horizontal Stack the first allocation of a child is
\* linked to the next child when that one returned allocations and is given
\* no neighbor by this Stack when it returned none; nothing is linked across
\* a child without allocations; a vertical Stack sets no neighbor.
C18EmptyChildBreaksChain ==
    op = "allocate" =>
        IF orientation = "horizontal"
        THEN /\ \A i \in DOMAIN controls :
                  (NonEmptyChild(i) /\ i < Len(controls)) =>
                      IF NonEmptyChild(i + 1)
                      THEN FirstAllocation(i).neighbor = <<i>>
                      ELSE ~SetHere(FirstAllocation(i))
             /\ \A k \in DOMAIN allocations :
                  SetHere(allocations[k]) =>
                      allocations[k].neighbor[1] = allocations[k].this[1] + 1
        ELSE \A k \in DOMAIN allocations : ~SetHere(allocations[k])

\* C18, amended: in a horizontal Stack the first allocation of every child
\* but the last is given the next child as neighbor, also when that child
\* returns no allocations; no other allocation is given a neighbor by this
\* Stack, so the child after one without allocations is the neighbor of
\* nothing; a vertical Stack sets no neighbor.
C18NeighborIsNextChild ==
    op = "allocate" =>
        IF orientation = "horizontal"
        THEN /\ \A i \in DOMAIN controls :
                  NonEmptyChild(i) =>
                      IF i < Len(controls)
                      THEN FirstAllocation(i).neighbor = <<i>>
                      ELSE ~SetHere(FirstAllocation(i))
             /\ \A k \in DOMAIN allocations :
                  SetHere(allocations[k]) =>
                      k = Min(ChildAllocations(allocations[k].this[1] + 1))
             /\ \A i \in DOMAIN controls :
                  (i > 1 /\ ~NonEmptyChild(i - 1)) =>
                      \A k \in DOMAIN allocations :
                          allocations[k].neighbor # <<i - 1>>
        ELSE \A k \in DOMAIN allocations : ~SetHere(allocations[k])

\* a leaf, a Space and a leaf: the first leaf has the Space as neighbor, the
\* second leaf is the neighbor of nothing
C18Witness ==
    /\ op = "allocate"
    /\ orientation = "horizontal"
    /\ Len(controls) = 3
    /\ controls[2] = space
    /\ Len(allocations) = 2
    /\ allocations[1].this = <<0>>
    /\ allocations[1].neighbor = <<1>>
    /\ allocations[2].this = <<2>>
    /\ allocations[2].neighbor = <<>>

(***************************************************************************)
(* Properties of the Stack's lock.                                         *)
(***************************************************************************)
\* C16: while a goroutine is inside allocate or preferredSize, where it
\* reads stretchy and writes the width and height caches, no other goroutine
\* is inside SetStretchy, make or allocate on the same Stack.
C16LockProtectsFields ==
    \A t \in Threads : \A u \in Threads \ {t} :
        threadPc[t] \in {"allocate", "preferredSize"} =>
            threadPc[u] \notin {"SetStretchy", "make", "allocate"}

====
